---- MODULE Spec2Model ----
(***************************************************************************)
(* Model of the stereo WAV analysis tools tools/analyze_wav.py and         *)
(* tools/quick_audio_analysis.py.                                          *)
(*                                                                         *)
(* Samples are Python floats in the source.  The model keeps them in       *)
(* fixed point: a sample is an integer count of 1/Unit, and every derived  *)
(* quantity (rms, mean, correlation, gain) is kept exactly as a signed     *)
(* square root of a rational, s * sqrt(n / d).  Floating-point rounding,   *)
(* NaN and infinities are not modelled.                                    *)
(***************************************************************************)
EXTENDS Integers, Sequences, FiniteSets, TLC

VARIABLES tool, nch, sw, sr, frames, pc, err, returned, L, R, Ld, Rd, m,
          fa, fb, fop, farg, fout

vars == <<tool, nch, sw, sr, frames, pc, err, returned, L, R, Ld, Rd, m,
          fa, fb, fop, farg, fout>>

progVars == <<tool, nch, sw, sr, frames, pc, err, returned, L, R, Ld, Rd, m>>
fnVars == <<fa, fb, fop, farg, fout>>

(***************************************************************************)
(* Bounds of the model.                                                    *)
(***************************************************************************)
\* fixed-point resolution: one sample unit is 1/Unit of full scale
Unit == 2
\* largest number of whole sample values in a payload
MaxValues == 4
\* longest buffer handed to a library function
MaxLen == 3
\* largest lag handed to corr_at_lag directly
MaxLagArg == 3
\* largest step handed to best_lag
MaxStep == 2

(***************************************************************************)
(* Integer helpers.                                                        *)
(***************************************************************************)
Abs(x) == IF x < 0 THEN -x ELSE x
Min(x, y) == IF x < y THEN x ELSE y
Max(x, y) == IF x > y THEN x ELSE y
Sign(x) == IF x > 0 THEN 1 ELSE IF x < 0 THEN -1 ELSE 0

RECURSIVE Gcd(_, _)
Gcd(x, y) == IF y = 0 THEN x ELSE Gcd(y, x % y)

RECURSIVE Pow2(_)
Pow2(k) == IF k = 0 THEN 1 ELSE 2 * Pow2(k - 1)

RECURSIVE SumSeq(_)
SumSeq(s) == IF s = <<>> THEN 0 ELSE Head(s) + SumSeq(Tail(s))

\* the sequences over S of length at most n
SeqsUpTo(S, n) == UNION {[1..k -> S] : k \in 0..n}

\* Python slice s[lo:hi] for 0 <= lo, 0 <= hi
PySlice(s, lo, hi) == SubSeq(s, lo + 1, Min(hi, Len(s)))
\* Python slice s[lo:] for 0 <= lo
PyFrom(s, lo) == SubSeq(s, lo + 1, Len(s))

\* Python range(start, stop, step) for step > 0, as a sequence
PyRange(start, stop, step) ==
    LET cnt == IF stop <= start THEN 0 ELSE (stop - start + step - 1) \div step
    IN [i \in 1..cnt |-> start + (i - 1) * step]

(***************************************************************************)
(* Python values.  Every value is a record with a field exc: "ok" for a    *)
(* value, the exception's name for a raised exception.                     *)
(***************************************************************************)
Exc(name) == [exc |-> name]
IsExc(v) == v.exc # "ok"
NoneVal == [exc |-> "ok", kind |-> "None"]
IsNone(v) == v.exc = "ok" /\ v.kind = "None"

\* the real number s * sqrt(n / d), in lowest terms
Real(s, n, d) ==
    IF s = 0 \/ n = 0
    THEN [exc |-> "ok", kind |-> "real", s |-> 0, n |-> 0, d |-> 1]
    ELSE LET g == Gcd(n, d)
         IN [exc |-> "ok", kind |-> "real", s |-> s, n |-> n \div g, d |-> d \div g]

\* the rational p / q, q > 0
Rat(p, q) == Real(Sign(p), p * p, q * q)
Zero == Real(0, 0, 1)
One == Real(1, 1, 1)

\* p / q as Python evaluates it
PyDiv(p, q) == IF q = 0 THEN Exc("ZeroDivisionError") ELSE Rat(p * Sign(q), Abs(q))

\* math.sqrt(p / q)
PySqrtDiv(p, q) ==
    IF q = 0 THEN Exc("ZeroDivisionError")
    ELSE IF p * Sign(q) < 0 THEN Exc("ValueError")
    ELSE Real(Sign(Abs(p)), Abs(p), Abs(q))

\* a / b > c / d for a, c >= 0 and b, d > 0, without multiplying
RECURSIVE FracGt(_, _, _, _)
FracGt(a, b, c, d) ==
    LET qa == a \div b
        qc == c \div d
        ra == a % b
        rc == c % d
    IN IF qa # qc THEN qa > qc
       ELSE IF ra = 0 THEN FALSE
       ELSE IF rc = 0 THEN TRUE
       ELSE FracGt(d, rc, b, ra)

\* x > y on reals
Gt(x, y) ==
    IF x.s # y.s THEN x.s > y.s
    ELSE IF x.s = 0 THEN FALSE
    ELSE IF x.s = 1 THEN FracGt(x.n, x.d, y.n, y.d)
    ELSE FracGt(y.n, y.d, x.n, x.d)

\* |x| on reals
RAbs(x) == Real(Abs(x.s), x.n, x.d)

(***************************************************************************)
(* read_wav_stereo: the sample decoder.                                    *)
(***************************************************************************)
\* norm = 32768.0 of the int16 branch
norm16 == 32768
\* number of values of the low 16 bits of a 32-bit word; the int32 norm
\* 2147483648.0 is norm16 * Lo16 (it does not fit a model integer)
Lo16 == 65536
\* bit pattern of the float32 value 10.0, the threshold of the heuristic
F32Ten == 1092616192

\* |p / q| rounded toward zero in sample units, keeping the sign
Fixed(p, q) == Sign(p) * ((Unit * Abs(p)) \div q)

\* one little-endian signed 16-bit value
I16(b0, b1) ==
    LET u == b0 + 256 * b1
    IN IF u >= norm16 THEN u - 2 * norm16 ELSE u

\* array('h').frombytes(frames): the values, or ValueError on a length
\* that is not a multiple of the item size
array_h(fr) ==
    IF Len(fr) % 2 # 0 THEN Exc("ValueError")
    ELSE [exc |-> "ok",
          vals |-> [i \in 1..(Len(fr) \div 2) |-> I16(fr[2 * i - 1], fr[2 * i])]]

\* the i-th (1-based) 4-byte word of frames[:count*4]
Word(fr, i) == <<fr[4 * i - 3], fr[4 * i - 2], fr[4 * i - 1], fr[4 * i]>>

\* abs() of a float32 orders as its bit pattern without the sign bit
F32AbsBits(w) == (w[4] % 128) * 16777216 + w[3] * Lo16 + w[2] * 256 + w[1]

\* the float32 value of a word, in sample units (values up to 10.0)
F32Fixed(w) ==
    LET e    == (w[4] % 128) * 2 + (w[3] \div 128)
        mant == (w[3] % 128) * Lo16 + w[2] * 256 + w[1]
        M    == IF e = 0 THEN mant ELSE 8388608 + mant
        sh   == 150 - (IF e = 0 THEN 1 ELSE e)
        mag  == IF sh >= 31 THEN 0 ELSE (Unit * M) \div Pow2(sh)
    IN IF w[4] >= 128 THEN -mag ELSE mag

\* the int32 value of a word divided by 2147483648.0, in sample units
I32Fixed(w) ==
    LET hi == (IF w[4] >= 128 THEN w[4] - 256 ELSE w[4]) * 256 + w[3]
        lo == w[2] * 256 + w[1]
        Mag(h, l) == (Unit * h + ((Unit * l) \div Lo16)) \div norm16
    IN IF hi >= 0 THEN Mag(hi, lo) ELSE -Mag(-hi - 1, Lo16 - lo)

\* max(abs(v) for v in vals) if vals else 0.0, compared with 10.0
maxabs_gt_10(fr, count) ==
    \E i \in 1..count : F32AbsBits(Word(fr, i)) > F32Ten

\* vals of the 4-byte branch: float32, or int32 / norm when the heuristic fires
vals32(fr) ==
    LET count == Len(fr) \div 4
    IN IF maxabs_gt_10(fr, count)
       THEN [i \in 1..count |-> I32Fixed(Word(fr, i))]
       ELSE [i \in 1..count |-> F32Fixed(Word(fr, i))]

\* [vals[i*2] for i in range(len(vals)//2)]
even_values(vals) == [i \in 1..(Len(vals) \div 2) |-> vals[2 * i - 1]]
\* [vals[i*2+1] for i in range(len(vals)//2)]
odd_values(vals) == [i \in 1..(Len(vals) \div 2) |-> vals[2 * i]]

Decoded(rate, vals) ==
    [exc |-> "ok", sr |-> rate, left |-> even_values(vals), right |-> odd_values(vals)]

\* variant: the sample width is validated before the channel count
read_wav_stereo_width_first(n_ch, s_w, rate, fr) ==
    IF s_w # 2 /\ s_w # 4 THEN Exc("UnsupportedSampleWidth")
    ELSE IF n_ch # 2 THEN Exc("UnsupportedChannelLayout")
    ELSE IF s_w = 2
         THEN LET a == array_h(fr)
              IN IF IsExc(a) THEN a
                 ELSE Decoded(rate, [i \in 1..Len(a.vals) |-> Fixed(a.vals[i], norm16)])
    ELSE Decoded(rate, vals32(fr))

read_wav_stereo(n_ch, s_w, rate, fr) ==
    IF n_ch # 2 THEN Exc("UnsupportedChannelLayout")
    ELSE IF s_w = 2
         THEN LET a == array_h(fr)
              IN IF IsExc(a) THEN a
                 ELSE Decoded(rate, [i \in 1..Len(a.vals) |-> Fixed(a.vals[i], norm16)])
    ELSE IF s_w = 4 THEN Decoded(rate, vals32(fr))
    ELSE Exc("UnsupportedSampleWidth")

(***************************************************************************)
(* Scalar statistics.                                                      *)
(***************************************************************************)
SumSq(arr) == SumSeq([i \in 1..Len(arr) |-> arr[i] * arr[i]])

\* variant: no early return for the empty buffer
rms_unguarded(arr) == PySqrtDiv(SumSq(arr), Len(arr) * Unit * Unit)

rms(arr) ==
    IF arr = <<>> THEN Zero
    ELSE PySqrtDiv(SumSq(arr), Len(arr) * Unit * Unit)

RECURSIVE MaxAbs(_)
MaxAbs(arr) == IF arr = <<>> THEN 0 ELSE Max(Abs(Head(arr)), MaxAbs(Tail(arr)))

peak(arr) == Rat(MaxAbs(arr), Unit)

mean(arr) ==
    IF arr = <<>> THEN Zero
    ELSE PyDiv(SumSeq(arr), Len(arr) * Unit)

\* a decibel value: the literal v, or 20*log10(of)
DbConst(v) == [exc |-> "ok", kind |-> "db", log |-> FALSE, v |-> v, of |-> Zero]
DbLog(x) == [exc |-> "ok", kind |-> "db", log |-> TRUE, v |-> 0, of |-> x]
\* 20.0 * math.log10(x)
PyLog10(x) == IF ~Gt(x, Zero) THEN Exc("ValueError") ELSE DbLog(x)
\* the decibel value is 0.0
DbIsZero(x) ==
    /\ x.exc = "ok"
    /\ x.kind = "db"
    /\ IF x.log THEN x.of = One ELSE x.v = 0

dbfs(x) ==
    IF IsExc(x) THEN x
    ELSE IF ~Gt(x, Zero) THEN DbConst(-999)
    ELSE PyLog10(x)

downsample(arr, step) ==
    IF step <= 1 THEN arr
    ELSE [i \in 1..((Len(arr) + step - 1) \div step) |-> arr[(i - 1) * step + 1]]

truncate_same_len(a, b) ==
    LET n == Min(Len(a), Len(b))
    IN <<PySlice(a, 0, n), PySlice(b, 0, n)>>

(***************************************************************************)
(* Cross-channel analysis.                                                 *)
(***************************************************************************)
\* the two segments a2, b2 that corr_at_lag correlates
\* variant: a positive lag shifts b instead of a
corr_segments_b_shifted(a, b, lag) ==
    IF lag = 0 THEN truncate_same_len(a, b)
    ELSE IF lag > 0
         THEN LET b2 == PyFrom(b, lag) IN <<PySlice(a, 0, Len(b2)), b2>>
    ELSE LET a2 == PyFrom(a, -lag) IN <<a2, PySlice(b, 0, Len(a2))>>

\* variant: a negative lag leaves a at its full length
corr_segments_untruncated(a, b, lag) ==
    IF lag = 0 THEN truncate_same_len(a, b)
    ELSE IF lag > 0
         THEN LET a2 == PyFrom(a, lag) IN <<a2, PySlice(b, 0, Len(a2))>>
    ELSE <<a, PyFrom(b, -lag)>>

corr_segments(a, b, lag) ==
    IF lag = 0 THEN truncate_same_len(a, b)
    ELSE IF lag > 0
         THEN LET a2 == PyFrom(a, lag) IN <<a2, PySlice(b, 0, Len(a2))>>
    ELSE LET b2 == PyFrom(b, -lag) IN <<PySlice(a, 0, Len(b2)), b2>>

\* x - mean(seg) for the x of seg that zip() reaches, times len(seg)
Centered(seg, k) == [i \in 1..k |-> Len(seg) * seg[i] - SumSeq(seg)]
Dot(u, v) == SumSeq([i \in 1..Len(u) |-> u[i] * v[i]])

\* num / math.sqrt(da * db)
CorrQuot(num, da, db) ==
    IF da * db < 0 THEN Exc("ValueError")
    ELSE IF da * db = 0 THEN Exc("ZeroDivisionError")
    ELSE Real(Sign(num), num * num, da * db)

\* the normalized cross-correlation of two segments: the means are taken over
\* each whole segment, the sums over the pairs that zip() yields
pearson(a2, b2) ==
    IF a2 = <<>> \/ b2 = <<>> THEN Zero
    ELSE LET k  == Min(Len(a2), Len(b2))
             dx == Centered(a2, k)
             dy == Centered(b2, k)
             da == Dot(dx, dx)
             db == Dot(dy, dy)
         IN IF da <= 0 \/ db <= 0 THEN Zero
            ELSE CorrQuot(Dot(dx, dy), da, db)

corr_at_lag(a, b, lag) ==
    LET seg == corr_segments(a, b, lag)
    IN pearson(seg[1], seg[2])

\* maxlag = int(sr * max_ms / 1000.0)
maxlag_of(rate, max_ms) == (rate * max_ms) \div 1000

\* bestc = -2.0
Placeholder == Real(-1, 4, 1)

\* variant: the comparison is >= instead of >
best_lag_iter_last_wins(a, b, lag, st) ==
    IF IsExc(st) THEN st
    ELSE LET c == corr_at_lag(a, b, lag)
         IN IF IsExc(c) THEN c
            ELSE IF ~Gt(st.c, c) THEN [exc |-> "ok", lag |-> lag, c |-> c]
            ELSE st

\* one iteration of the loop of best_lag: st is (best, bestc) so far
best_lag_iter(a, b, lag, st) ==
    IF IsExc(st) THEN st
    ELSE LET c == corr_at_lag(a, b, lag)
         IN IF IsExc(c) THEN c
            ELSE IF Gt(c, st.c) THEN [exc |-> "ok", lag |-> lag, c |-> c]
            ELSE st

\* the iterations for lags[i..j] in order, i <= j (the recursion halves the
\* range to keep its depth small; the iterations still run left to right)
RECURSIVE best_lag_loop(_, _, _, _, _, _)
best_lag_loop(a, b, lags, i, j, st) ==
    IF i = j THEN best_lag_iter(a, b, lags[i], st)
    ELSE LET mid == (i + j) \div 2
             half == best_lag_loop(a, b, lags, i, mid, st)
         IN IF IsExc(half) THEN half
            ELSE best_lag_loop(a, b, lags, mid + 1, j, half)

best_lag(a, b, rate, max_ms, step) ==
    LET maxlag == maxlag_of(rate, max_ms)
        lags == PyRange(-maxlag, maxlag + 1, step)
        st0 == [exc |-> "ok", lag |-> 0, c |-> Placeholder]
    IN IF lags = <<>> THEN st0 ELSE best_lag_loop(a, b, lags, 1, Len(lags), st0)

\* variant: the cross term accumulates t instead of r*t
leakage_db_unweighted(target, reference) ==
    LET n  == Min(Len(target), Len(reference))
        rr == SumSeq([i \in 1..n |-> reference[i] * reference[i]])
        rt == SumSeq([i \in 1..n |-> target[i]])
    IN IF n = 0 THEN [exc |-> "ok", g |-> NoneVal, db |-> NoneVal]
       ELSE IF rr <= 0 THEN [exc |-> "ok", g |-> Zero, db |-> DbConst(0)]
       ELSE LET g == PyDiv(rt, rr)
            IN IF IsExc(g) THEN g
               ELSE IF Gt(RAbs(g), Zero)
                    THEN LET db == PyLog10(RAbs(g))
                         IN IF IsExc(db) THEN db ELSE [exc |-> "ok", g |-> g, db |-> db]
               ELSE [exc |-> "ok", g |-> g, db |-> DbConst(-999)]

leakage_db(target, reference) ==
    LET n  == Min(Len(target), Len(reference))
        rr == SumSeq([i \in 1..n |-> reference[i] * reference[i]])
        rt == SumSeq([i \in 1..n |-> reference[i] * target[i]])
    IN IF n = 0 THEN [exc |-> "ok", g |-> NoneVal, db |-> NoneVal]
       ELSE IF rr <= 0 THEN [exc |-> "ok", g |-> Zero, db |-> DbConst(0)]
       ELSE LET g == PyDiv(rt, rr)
            IN IF IsExc(g) THEN g
               ELSE IF Gt(RAbs(g), Zero)
                    THEN LET db == PyLog10(RAbs(g))
                         IN IF IsExc(db) THEN db ELSE [exc |-> "ok", g |-> g, db |-> db]
               ELSE [exc |-> "ok", g |-> g, db |-> DbConst(-999)]

(***************************************************************************)
(* Noise floor.                                                            *)
(***************************************************************************)
\* win = max(1, int(sr * win_ms / 1000))
window_len(rate, win_ms) == Max(1, (rate * win_ms) \div 1000)

\* variant: range(0, len(arr) - win + 1, win)
noise_floor_windows_inclusive(n, win) == PyRange(0, n - win + 1, win)

\* range(0, len(arr) - win, win): the starts of the windows
noise_floor_windows(n, win) == PyRange(0, n - win, win)

\* the rms of each window, in window order
rms_list_of(arr, win) ==
    LET starts == noise_floor_windows(Len(arr), win)
    IN [j \in 1..Len(starts) |-> rms(PySlice(arr, starts[j], starts[j] + win))]

\* list.sort() on reals
RECURSIVE Insert(_, _)
Insert(x, s) ==
    IF s = <<>> THEN <<x>>
    ELSE IF Gt(x, Head(s)) THEN <<Head(s)>> \o Insert(x, Tail(s))
    ELSE <<x>> \o s
RECURSIVE SortAsc(_)
SortAsc(s) == IF s = <<>> THEN <<>> ELSE Insert(Head(s), SortAsc(Tail(s)))

\* percentile is the fraction pct[1] / pct[2]
noise_floor_db(arr, rate, win_ms, pct) ==
    LET win == window_len(rate, win_ms)
    IN IF Len(arr) < win THEN dbfs(rms(arr))
       ELSE LET rl == rms_list_of(arr, win)
            IN IF rl = <<>> THEN dbfs(rms(arr))
               ELSE LET sorted == SortAsc(rl)
                        idx == Max(0, ((Len(rl) * pct[1]) \div pct[2]) - 1)
                    IN dbfs(sorted[idx + 1])

(***************************************************************************)
(* Clipping, dynamic range and channel correlation of the quick report.    *)
(***************************************************************************)
\* threshold is the fraction thr[1] / thr[2]
analyze_clipping(arr, thr) ==
    LET clipped == Cardinality({i \in 1..Len(arr) : Abs(arr[i]) * thr[2] >= thr[1] * Unit})
        pct == IF arr # <<>> THEN PyDiv(clipped * 100, Len(arr)) ELSE Zero
    IN IF IsExc(pct) THEN pct ELSE [exc |-> "ok", count |-> clipped, pct |-> pct]

\* dbfs(x) - dbfs(y)
DbSub(x, y) ==
    IF IsExc(x) THEN x ELSE IF IsExc(y) THEN y
    ELSE [exc |-> "ok", kind |-> "dbdiff", a |-> x, b |-> y]

analyze_dynamic_range(arr) ==
    IF arr = <<>> THEN Zero
    ELSE LET peak_val == peak(arr)
             rms_val == rms(arr)
         IN IF IsExc(rms_val) THEN rms_val
            ELSE IF Gt(rms_val, Zero) THEN DbSub(dbfs(peak_val), dbfs(rms_val))
            ELSE Zero

\* sample_size = min(44100, len(L), len(R)) and the correlation of the samples
max_sample_size == 44100
channel_correlation(left, right) ==
    LET sample_size == Min(max_sample_size, Min(Len(left), Len(right)))
        L_sample == PySlice(left, 0, sample_size)
        R_sample == PySlice(right, 0, sample_size)
    IN IF L_sample # <<>> /\ R_sample # <<>>
       THEN LET dl == Centered(L_sample, Len(L_sample))
                dr == Centered(R_sample, Len(R_sample))
                L_var == Dot(dl, dl)
                R_var == Dot(dr, dr)
            IN IF L_var > 0 /\ R_var > 0 THEN CorrQuot(Dot(dl, dr), L_var, R_var)
               ELSE Zero
       ELSE Zero

(***************************************************************************)
(* The two report scripts: main() of analyze_wav.py and of                 *)
(* quick_audio_analysis.py, one action per stage.                          *)
(***************************************************************************)
Tools == {"analyze_wav", "quick_audio_analysis"}

\* step = max(1, sr // 8000): the analysis rate the correlation aims at
target_rate == 8000
\* best_lag(..., max_ms=200, step=1)
lag_max_ms == 200
\* noise_floor_db(..., win_ms=50, percentile=0.2)
floor_win_ms == 50
floor_percentile == <<2, 10>>
\* analyze_clipping(arr, threshold=0.95)
clip_threshold == <<95, 100>>

\* sample rates, channel counts and sample widths of the input files
Rates == {0, 20, 40, 16000}
ChannelCounts == {1, 2, 3}
SampleWidths == {1, 2, 3, 4}

\* 16-bit words: 0, 0.5, -1.0
Words16 == {<<0, 0>>, <<0, 64>>, <<0, 128>>}
\* 32-bit words: 0.0f, -1.0f, and 0x60000000 (3.7e19f, or 0.75 as int32)
Words32 == {<<0, 0, 0, 0>>, <<0, 0, 128, 191>>, <<0, 0, 0, 96>>}

RECURSIVE Flatten(_)
Flatten(ws) == IF ws = <<>> THEN <<>> ELSE Head(ws) \o Flatten(Tail(ws))

\* payloads of a file of sample width w: whole words, then up to w-1 bytes
\* of a word cut short
Payloads(w) ==
    {Flatten(ws) \o [i \in 1..t |-> 255] :
        ws \in SeqsUpTo(IF w = 4 THEN Words32 ELSE Words16, MaxValues),
        t \in 0..(w - 1)}

NoMetrics == [k \in {} |-> Zero]

FnIdle ==
    /\ fa = <<>>
    /\ fb = <<>>
    /\ fop = "idle"
    /\ farg = <<>>
    /\ fout = <<>>

Init ==
    /\ tool \in Tools
    /\ nch \in ChannelCounts
    /\ sw \in SampleWidths
    /\ sr \in Rates
    /\ frames \in Payloads(sw)
    /\ pc = "read"
    /\ err = "none"
    /\ returned = FALSE
    /\ L = <<>>
    /\ R = <<>>
    /\ Ld = <<>>
    /\ Rd = <<>>
    /\ m = NoMetrics
    /\ FnIdle

\* a stage that computed news either raised or stored its results
Stage(news, nxt) ==
    IF \E k \in DOMAIN news : IsExc(news[k])
    THEN /\ pc' = "failed"
         /\ err' = news[CHOOSE k \in DOMAIN news : IsExc(news[k])].exc
         /\ m' = m
    ELSE /\ pc' = nxt
         /\ err' = err
         /\ m' = news @@ m

\* sr, L, R = read_wav_stereo(path)
Read ==
    /\ pc = "read"
    /\ LET r == read_wav_stereo(nch, sw, sr, frames)
       IN IF IsExc(r)
          THEN /\ pc' = "failed"
               /\ err' = r.exc
               /\ UNCHANGED <<returned, L, R>>
          ELSE /\ pc' = "basic"
               /\ returned' = TRUE
               /\ L' = r.left
               /\ R' = r.right
               /\ err' = err
    /\ UNCHANGED <<tool, nch, sw, sr, frames, Ld, Rd, m, fnVars>>

\* rms, peak and mean of both channels
BasicMetrics ==
    /\ pc = "basic"
    /\ Stage("L_rms" :> rms(L) @@ "R_rms" :> rms(R) @@
             "L_peak" :> peak(L) @@ "R_peak" :> peak(R) @@
             "L_dc" :> mean(L) @@ "R_dc" :> mean(R),
             IF tool = "analyze_wav" THEN "downsample" ELSE "clipping")
    /\ UNCHANGED <<tool, nch, sw, sr, frames, returned, L, R, Ld, Rd, fnVars>>

\* step = max(1, sr // 8000)
analysis_step(rate) == Max(1, rate \div target_rate)

\* downsample both channels and trim them to the same length
Downsample ==
    /\ pc = "downsample"
    /\ tool = "analyze_wav"
    /\ LET step == analysis_step(sr)
           t == truncate_same_len(downsample(L, step), downsample(R, step))
       IN /\ Ld' = t[1]
          /\ Rd' = t[2]
    /\ pc' = "best_lag"
    /\ UNCHANGED <<tool, nch, sw, sr, frames, err, returned, L, R, m, fnVars>>

\* lag, corr = best_lag(Ld, Rd, sr//step, max_ms=200, step=1)
BestLag ==
    /\ pc = "best_lag"
    /\ Stage("best_lag" :> best_lag(Ld, Rd, sr \div analysis_step(sr), lag_max_ms, 1),
             "leakage")
    /\ UNCHANGED <<tool, nch, sw, sr, frames, returned, L, R, Ld, Rd, fnVars>>

\* leakage in both directions
Leakage ==
    /\ pc = "leakage"
    /\ Stage("leak_RtoL" :> leakage_db(Ld, Rd) @@ "leak_LtoR" :> leakage_db(Rd, Ld),
             "noise_floor")
    /\ UNCHANGED <<tool, nch, sw, sr, frames, returned, L, R, Ld, Rd, fnVars>>

\* clipping analysis of both channels
Clipping ==
    /\ pc = "clipping"
    /\ Stage("L_clip" :> analyze_clipping(L, clip_threshold) @@
             "R_clip" :> analyze_clipping(R, clip_threshold),
             "dynamic_range")
    /\ UNCHANGED <<tool, nch, sw, sr, frames, returned, L, R, Ld, Rd, fnVars>>

\* dynamic range of both channels
DynamicRange ==
    /\ pc = "dynamic_range"
    /\ Stage("L_dr" :> analyze_dynamic_range(L) @@ "R_dr" :> analyze_dynamic_range(R),
             "noise_floor")
    /\ UNCHANGED <<tool, nch, sw, sr, frames, returned, L, R, Ld, Rd, fnVars>>

\* noise floor of both channels
NoiseFloor ==
    /\ pc = "noise_floor"
    /\ Stage("L_floor" :> noise_floor_db(L, sr, floor_win_ms, floor_percentile) @@
             "R_floor" :> noise_floor_db(R, sr, floor_win_ms, floor_percentile),
             IF tool = "analyze_wav" THEN "report" ELSE "correlation")
    /\ UNCHANGED <<tool, nch, sw, sr, frames, returned, L, R, Ld, Rd, fnVars>>

\* correlation coefficient of the first second of both channels
Correlation ==
    /\ pc = "correlation"
    /\ Stage("corr_coeff" :> channel_correlation(L, R), "report")
    /\ UNCHANGED <<tool, nch, sw, sr, frames, returned, L, R, Ld, Rd, fnVars>>

\* format(v, 'f'): a float formats, None raises TypeError
FormatFloat(v) == IF IsNone(v) THEN Exc("TypeError") ELSE [exc |-> "ok"]
\* if g is not None: print(f"{g:+.6f}")
PrintIfNotNone(v) == IF ~IsNone(v) THEN FormatFloat(v) ELSE [exc |-> "ok"]

\* the arithmetic of the report of analyze_wav.py: len(L)/sr, lag/(sr/step)
report_analyze_wav(rate, left, lag, g_RtoL, g_LtoR) ==
    LET length == PyDiv(Len(left), rate)
        arate == PyDiv(rate, analysis_step(rate))
        lag_ms == IF IsExc(arate) THEN arate
                  ELSE IF arate = Zero THEN Exc("ZeroDivisionError")
                  ELSE [exc |-> "ok"]
    IN IF IsExc(length) THEN length
       ELSE IF IsExc(lag_ms) THEN lag_ms
       ELSE IF IsExc(PrintIfNotNone(g_RtoL)) THEN PrintIfNotNone(g_RtoL)
       ELSE IF IsExc(PrintIfNotNone(g_LtoR)) THEN PrintIfNotNone(g_LtoR)
       ELSE length

\* the arithmetic of the report of quick_audio_analysis.py: len(L)/sr
report_quick(rate, left) == PyDiv(Len(left), rate)

Report ==
    /\ pc = "report"
    /\ Stage("length" :> (IF tool = "analyze_wav"
                          THEN report_analyze_wav(sr, L, m["best_lag"].lag,
                                                  m["leak_RtoL"].g, m["leak_LtoR"].g)
                          ELSE report_quick(sr, L)),
             "done")
    /\ UNCHANGED <<tool, nch, sw, sr, frames, returned, L, R, Ld, Rd, fnVars>>

Next ==
    \/ Read
    \/ BasicMetrics
    \/ Downsample
    \/ BestLag
    \/ Leakage
    \/ Clipping
    \/ DynamicRange
    \/ NoiseFloor
    \/ Correlation
    \/ Report

Spec == Init /\ [][Next]_vars

(***************************************************************************)
(* The analysis functions called directly, on arbitrary buffers.           *)
(***************************************************************************)
\* sample values of the buffers, in sample units
Samples == {-1, 0, 2}
\* sample rates handed to best_lag: maxlag is 1, 2, 3
LagRates == {5, 10, 15}
\* sample rates handed to noise_floor_db: the window is 1, 2, 3 samples
FloorRates == {20, 40, 60}

ProgIdle ==
    /\ tool = "library"
    /\ nch = 2
    /\ sw = 2
    /\ sr = 0
    /\ frames = <<>>
    /\ pc = "library"
    /\ err = "none"
    /\ returned = FALSE
    /\ L = <<>>
    /\ R = <<>>
    /\ Ld = <<>>
    /\ Rd = <<>>
    /\ m = NoMetrics

InitFn ==
    /\ ProgIdle
    /\ fa \in SeqsUpTo(Samples, MaxLen)
    /\ fb \in SeqsUpTo(Samples, MaxLen)
    /\ fop = "idle"
    /\ farg = <<>>
    /\ fout = <<>>

\* corr_at_lag(fa, fb, lag)
Call_corr_at_lag ==
    \E lag \in -MaxLagArg..MaxLagArg :
        /\ fop = "idle"
        /\ fop' = "corr_at_lag"
        /\ farg' = [a |-> fa, b |-> fb, lag |-> lag]
        /\ fout' = [c |-> corr_at_lag(fa, fb, lag),
                    len_a2 |-> Len(corr_segments(fa, fb, lag)[1]),
                    len_b2 |-> Len(corr_segments(fa, fb, lag)[2])]
        /\ UNCHANGED <<fa, fb, progVars>>

\* best_lag(fa, fb, rate, max_ms=200, step)
Call_best_lag ==
    \E rate \in LagRates, step \in 1..MaxStep :
        /\ fop = "idle"
        /\ fop' = "best_lag"
        /\ farg' = [a |-> fa, b |-> fb, sr |-> rate, max_ms |-> lag_max_ms, step |-> step]
        /\ fout' = best_lag(fa, fb, rate, lag_max_ms, step)
        /\ UNCHANGED <<fa, fb, progVars>>

\* leakage_db(fa, fb)
Call_leakage_db ==
    /\ fop = "idle"
    /\ fop' = "leakage_db"
    /\ farg' = [target |-> fa, reference |-> fb]
    /\ fout' = leakage_db(fa, fb)
    /\ UNCHANGED <<fa, fb, progVars>>

\* noise_floor_db(fa, rate, win_ms=50, percentile=0.2)
Call_noise_floor_db ==
    \E rate \in FloorRates :
        /\ fop = "idle"
        /\ fop' = "noise_floor_db"
        /\ farg' = [arr |-> fa, sr |-> rate, win |-> window_len(rate, floor_win_ms)]
        /\ fout' = [db |-> noise_floor_db(fa, rate, floor_win_ms, floor_percentile),
                    rms_list |-> IF Len(fa) < window_len(rate, floor_win_ms) THEN <<>>
                                 ELSE rms_list_of(fa, window_len(rate, floor_win_ms)),
                    windowed |-> Len(fa) >= window_len(rate, floor_win_ms)]
        /\ UNCHANGED <<fa, fb, progVars>>

NextFn ==
    \/ Call_corr_at_lag
    \/ Call_best_lag
    \/ Call_leakage_db
    \/ Call_noise_floor_db

SpecFn == InitFn /\ [][NextFn]_vars

(***************************************************************************)
(* Properties.                                                             *)
(***************************************************************************)
IsConstant(s) == \A i, j \in 1..Len(s) : s[i] = s[j]
IsSilent(s) == \A i \in 1..Len(s) : s[i] = 0
MinusOne == Real(-1, 1, 1)

\* C1: for two channels and a sample width of 2 or 4, decoding any byte
\* payload succeeds and yields left and right buffers of the same length
\* floor(floor(byte_count / sample_width) / 2); trailing bytes are dropped.
C1_DecodesAnyPayload ==
    (pc # "read" /\ nch = 2 /\ sw \in {2, 4}) =>
        /\ returned
        /\ Len(L) = (Len(frames) \div sw) \div 2
        /\ Len(R) = (Len(frames) \div sw) \div 2

\* C2: an invalid format descriptor is rejected before anything is produced:
\* a channel count other than 2 gives the channel-layout error whatever the
\* sample width is, a sample width outside {2, 4} with two channels gives the
\* sample-width error, and in both cases no buffer is returned and no metric
\* is ever computed.
C2_RejectsInvalidDescriptor ==
    /\ (pc = "read") => (~returned /\ DOMAIN m = {})
    /\ (pc # "read" /\ nch # 2) =>
          /\ pc = "failed"
          /\ err = "UnsupportedChannelLayout"
          /\ ~returned /\ L = <<>> /\ R = <<>> /\ DOMAIN m = {}
    /\ (pc # "read" /\ nch = 2 /\ sw \notin {2, 4}) =>
          /\ pc = "failed"
          /\ err = "UnsupportedSampleWidth"
          /\ ~returned /\ L = <<>> /\ R = <<>> /\ DOMAIN m = {}

\* a file with neither two channels nor a supported width was rejected for
\* its channel layout
C2_Witness ==
    /\ pc = "failed"
    /\ nch # 2
    /\ sw \notin {2, 4}
    /\ err = "UnsupportedChannelLayout"

\* C3: once decoding has succeeded with a positive sample rate, no stage of
\* either report raises, and on empty, silent and constant buffers each
\* metric is its neutral value: 0.0, the -999.0 floor, or None.
C3_AnalysisNeverRaises ==
    (returned /\ sr > 0) =>
        /\ pc # "failed"
        /\ err = "none"
        /\ ("L_rms" \in DOMAIN m /\ IsSilent(L)) =>
              (m["L_rms"] = Zero /\ m["L_peak"] = Zero /\ m["L_dc"] = Zero)
        /\ ("L_floor" \in DOMAIN m /\ IsSilent(L)) => m["L_floor"] = DbConst(-999)
        /\ ("L_clip" \in DOMAIN m /\ L = <<>>) =>
              (m["L_clip"].count = 0 /\ m["L_clip"].pct = Zero)
        /\ ("L_dr" \in DOMAIN m /\ IsSilent(L)) => m["L_dr"] = Zero
        /\ ("best_lag" \in DOMAIN m /\ (IsConstant(Ld) \/ IsConstant(Rd))) =>
              m["best_lag"].c = Zero
        /\ ("leak_RtoL" \in DOMAIN m /\ Ld = <<>>) =>
              (IsNone(m["leak_RtoL"].g) /\ IsNone(m["leak_LtoR"].g))
        /\ ("leak_RtoL" \in DOMAIN m /\ Ld # <<>> /\ IsSilent(Rd)) =>
              (m["leak_RtoL"].g = Zero /\ m["leak_RtoL"].db = DbConst(0))
        /\ ("corr_coeff" \in DOMAIN m /\ (IsConstant(L) \/ IsConstant(R))) =>
              m["corr_coeff"] = Zero

\* a report on empty buffers ran to its end
C3_Witness ==
    /\ pc = "done"
    /\ sr > 0
    /\ L = <<>>
    /\ R = <<>>

\* b is a delayed by k samples: b[i+k] = a[i] for every valid i
DelayedBy(a, b, k) ==
    /\ Len(a) = Len(b)
    /\ \A i \in 1..(Len(a) - k) : b[i + k] = a[i]

\* the lags of the search window that give correlation 1
PerfectLags(a, b, maxlag) == {l \in -maxlag..maxlag : corr_at_lag(a, b, l) = One}

\* the case of C4: b is a delayed by k samples, 0 < k <= maxlag, the part of
\* a that overlaps b after the shift is not constant (so a is not), and
\* exactly one lag of the search window gives correlation 1
C4_Case(k) ==
    /\ fop = "best_lag"
    /\ farg.step = 1
    /\ k \in 1..maxlag_of(farg.sr, farg.max_ms)
    /\ DelayedBy(farg.a, farg.b, k)
    /\ ~IsConstant(PySlice(farg.a, 0, Len(farg.a) - k))
    /\ Cardinality(PerfectLags(farg.a, farg.b, maxlag_of(farg.sr, farg.max_ms))) = 1

\* C4 as stated: when b is a non-constant a delayed by k samples and no other
\* lag gives correlation 1, best_lag with step 1 returns lag = +k with
\* correlation 1.
C4_ReturnsPlusK ==
    \A k \in 1..MaxLen : C4_Case(k) => (fout.lag = k /\ fout.c = One)

\* C4 amended: when b is a delayed by k samples, the overlapping part of a is
\* not constant and no other lag gives correlation 1, best_lag with step 1
\* returns lag = -k with correlation 1 (a positive lag means b leads a).
C4_ReturnsMinusK ==
    \A k \in 1..MaxLen : C4_Case(k) => (fout.lag = -k /\ fout.c = One)

C4_Witness ==
    \E k \in 1..MaxLen : C4_Case(k) /\ fout.lag = -k

\* C5: correlation_at_lag(a, b, lag) equals correlation_at_lag(b, a, -lag)
\* for all buffers, of equal or unequal lengths, and every lag.
C5_SwapNegateSymmetric ==
    (fop = "corr_at_lag") => fout.c = corr_at_lag(farg.b, farg.a, -farg.lag)

\* a non-zero correlation of buffers of different lengths at a non-zero lag
C5_Witness ==
    /\ fop = "corr_at_lag"
    /\ Len(farg.a) # Len(farg.b)
    /\ farg.lag # 0
    /\ fout.c # Zero

\* C6 as stated: for every buffer a, leakage_gain(a, a) returns gain 1.0 and
\* decibel value 0.0.
C6_SelfLeakageIsUnity ==
    (fop = "leakage_db" /\ farg.target = farg.reference) =>
        (fout.g = One /\ DbIsZero(fout.db))

\* C6 amended: for every buffer a with at least one non-zero sample,
\* leakage_gain(a, a) returns gain 1.0 and decibel value 20*log10(1.0) = 0.0.
C6_SelfLeakageIsUnityWithEnergy ==
    (fop = "leakage_db" /\ farg.target = farg.reference /\ ~IsSilent(farg.reference)) =>
        (fout.g = One /\ fout.db = DbLog(One))

C6_Witness ==
    /\ fop = "leakage_db"
    /\ farg.target = farg.reference
    /\ ~IsSilent(farg.reference)
    /\ Len(farg.reference) > 1
    /\ fout.g = One

\* C7: for a buffer of length n >= win the per-window RMS list has one entry
\* for every complete window, floor(n / win) entries.
C7_EveryFullWindow ==
    (fop = "noise_floor_db" /\ Len(farg.arr) >= farg.win) =>
        Len(fout.rms_list) = Len(farg.arr) \div farg.win

\* C8 as stated: for win <= n < 2*win no window is collected and the result
\* is to_dbfs(rms(whole buffer)).
C8_FallbackBelowTwoWindows ==
    (fop = "noise_floor_db" /\ farg.win <= Len(farg.arr) /\ Len(farg.arr) < 2 * farg.win) =>
        /\ fout.rms_list = <<>>
        /\ fout.db = dbfs(rms(farg.arr))

\* C8 amended: no window is collected, and the result is to_dbfs(rms(whole
\* buffer)), exactly when n = win; for win < n < 2*win one window is
\* collected and the result is to_dbfs of the rms of the first win samples.
C8_FallbackAtOneWindow ==
    (fop = "noise_floor_db") =>
        /\ (Len(farg.arr) = farg.win) =>
              (fout.rms_list = <<>> /\ fout.db = dbfs(rms(farg.arr)))
        /\ (farg.win < Len(farg.arr) /\ Len(farg.arr) < 2 * farg.win) =>
              /\ Len(fout.rms_list) = 1
              /\ fout.db = dbfs(rms(PySlice(farg.arr, 0, farg.win)))

C8_Witness ==
    /\ fop = "noise_floor_db"
    /\ Len(farg.arr) = farg.win
    /\ ~IsSilent(farg.arr)
    /\ fout.rms_list = <<>>

\* the lags best_lag evaluates
EvaluatedLags == 
    PyRange(-maxlag_of(farg.sr, farg.max_ms), maxlag_of(farg.sr, farg.max_ms) + 1, farg.step)

\* C9: best_lag returns an evaluated lag and its correlation, which is the
\* maximum over the evaluated lags, lies in [-1, 1] and is not the
\* placeholder; the lag is the smallest one attaining the maximum, and it is
\* -maxlag when every correlation is 0.0.
C9_FirstMaximum ==
    (fop = "best_lag") =>
        /\ fout.exc = "ok"
        /\ fout.c # Placeholder
        /\ ~Gt(fout.c, One)
        /\ ~Gt(MinusOne, fout.c)
        /\ \E i \in 1..Len(EvaluatedLags) :
              /\ fout.lag = EvaluatedLags[i]
              /\ fout.c = corr_at_lag(farg.a, farg.b, EvaluatedLags[i])
              /\ \A j \in 1..Len(EvaluatedLags) :
                    ~Gt(corr_at_lag(farg.a, farg.b, EvaluatedLags[j]), fout.c)
              /\ \A j \in 1..(i - 1) :
                    Gt(fout.c, corr_at_lag(farg.a, farg.b, EvaluatedLags[j]))
        /\ (\A j \in 1..Len(EvaluatedLags) :
                corr_at_lag(farg.a, farg.b, EvaluatedLags[j]) = Zero)
           => fout.lag = -maxlag_of(farg.sr, farg.max_ms)

\* two evaluated lags tie at a non-zero maximum and the later one is not the
\* first lag of the scan
C9_Witness ==
    /\ fop = "best_lag"
    /\ fout.c # Zero
    /\ fout.lag > -maxlag_of(farg.sr, farg.max_ms)
    /\ \E j \in 1..Len(EvaluatedLags) :
          /\ EvaluatedLags[j] > fout.lag
          /\ corr_at_lag(farg.a, farg.b, EvaluatedLags[j]) = fout.c

\* C10: correlation_at_lag takes its means, variance sums and cross product
\* over two segments of the same length, also for buffers of different
\* lengths.
C10_SegmentsSameLength ==
    (fop = "corr_at_lag" /\ fout.len_a2 > 0 /\ fout.len_b2 > 0) =>
        fout.len_a2 = fout.len_b2

====
